---- MODULE Spec2Model ----
(***************************************************************************)
(* Model of check-dependencies.js (the security-aware revision, lines      *)
(* 286-708 of the source file): one run of main.  A step runs from the     *)
(* settling of the awaited external call to the next await and sends the   *)
(* request of that await.  External services answer nondeterministically.  *)
(***************************************************************************)
EXTENDS Integers, Sequences, FiniteSets, TLC

\* ------------------------------------------------------------------ bounds
NumRepos == 2
MaxAlerts == 1
MaxDeps == 2
MaxOutdated == 12

\* ------------------------------------------------------------- input sets
Null == [null |-> TRUE]

RepoNames == <<"owner/repo1", "owner/repo2", "owner/repo3", "owner/repo4">>

\* config.repos: the ordered list of repository identifiers
repos == SubSeq(RepoNames, 1, NumRepos)

\* severity values of a Dependabot advisory ("low" is treated as "medium"
\* by every branch of the script that reads a severity)
Severities == {"critical", "high", "medium"}

\* version strings are sequences of characters
Versions == {<<"1">>, <<"^", "1">>, <<"~", "1">>}
Latest == {<<"1">>, <<"2">>}
Names == {"a", "b", "c"}

\* ordered name -> version mappings (a JSON object): sequences of entries
\* with pairwise distinct names
RECURSIVE MappingsOfLen(_, _, _)
MappingsOfLen(names, versions, n) ==
    IF n = 0 THEN {<<>>}
    ELSE UNION { { <<[name |-> nm, version |-> v]>> \o rest :
                     rest \in MappingsOfLen(names \ {nm}, versions, n - 1) } :
                 nm \in names, v \in versions }

\* package.json documents with at most n entries over both groups
ManifestsOver(names, versions, n) ==
    UNION { UNION { { [dependencies |-> d, devDependencies |-> dv] :
                        d \in MappingsOfLen(names, versions, nd),
                        dv \in MappingsOfLen(names, versions, ndv) } :
                    ndv \in 0..(n - nd) } :
            nd \in 0..n }

\* manifests a repository of a whole run may hold
Manifests == ManifestsOver({"a"}, {<<"^", "1">>}, 1)

\* manifests the comparator is exercised on
CmpManifests == ManifestsOver(Names, Versions, MaxDeps)

RECURSIVE SeqsUpTo(_, _)
SeqsUpTo(S, n) ==
    IF n = 0 THEN {<<>>}
    ELSE SeqsUpTo(S, n - 1) \cup
         { Append(s, x) : s \in { t \in SeqsUpTo(S, n - 1) : Len(t) = n - 1 }, x \in S }

\* bodies of a 200 answer of the Dependabot alerts endpoint
RawAlert(nm, sv) ==
    [security_vulnerability |-> [package |-> [name |-> nm]],
     security_advisory |-> [severity |-> sv]]

AlertLists == SeqsUpTo({ RawAlert("a", sv) : sv \in Severities }, MaxAlerts)

\* a 200 body that cannot be decoded or lacks the fields the code reads
Garbage == [garbage |-> TRUE]

\* answers of api.github.com to a request made with the token
GithubStatuses(token) ==
    IF token = "valid" THEN {"200", "404", "500", "neterr"} ELSE {"401", "neterr"}

\* a GitHub answer: the status and, for a 200, the body
GithubAnswers(token, bodies) ==
    { [status |-> st, body |-> Null] : st \in GithubStatuses(token) \ {"200"} }
    \cup { [status |-> "200", body |-> b] :
             b \in IF "200" \in GithubStatuses(token) THEN bodies ELSE {} }

\* answers of registry.npmjs.org
RegistryAnswers ==
    { [status |-> "neterr", body |-> Null], [status |-> "404", body |-> Null],
      [status |-> "200", body |-> Garbage] }
    \cup { [status |-> "200", body |-> [distTags |-> [latest |-> v]]] : v \in Latest }

VARIABLES
    pc,             \* position of main
    githubToken,    \* process.env.GH_TOKEN: "absent", "valid" or "invalid"
    i,              \* index of the repository the loop is at
    packageJson,    \* manifest of the current repository, or Null
    securityAlerts, \* advisories of the current repository
    dependencies,   \* checkOutdatedPackages: the merged mapping
    lookups,        \* checkOutdatedPackages: info of each dependency looked up so far
    outdated,       \* checkOutdatedPackages: the records pushed so far
    results,        \* the aggregate
    analysis,       \* text returned by analyzeWithClaude, or Null
    emails,         \* subjects of the emails the relay accepted
    calls,          \* the outbound calls settled so far, in order
    inFlight,       \* the outbound calls started and not yet settled
    prompt,         \* analyzeWithClaude: its local prompt, Null outside the call
    answer,         \* the host's answer to the last request of this iteration
    fetched,        \* per repository: did the manifest load, the advisories fetched
    credsUsed,      \* environment values handed to an outbound call
    failure,        \* what ended the run in Failed
    exitCode        \* process exit status, -1 while running

vars == <<pc, githubToken, i, packageJson, securityAlerts, dependencies, lookups,
          outdated, results, analysis, emails, calls, inFlight, prompt, answer,
          fetched, credsUsed, failure, exitCode>>

\* ------------------------------------------------------------- pure helpers
NamesOf(m) == { m[j].name : j \in 1..Len(m) }

IndexOf(m, nm) == CHOOSE j \in 1..Len(m) : m[j].name = nm

\* variant: the spreads are swapped, { ...devDependencies, ...dependencies }
MergeDependencies_RegularWins(deps, dev) ==
    [ j \in 1..Len(dev) |->
        IF dev[j].name \in NamesOf(deps)
        THEN [name |-> dev[j].name, version |-> deps[IndexOf(deps, dev[j].name)].version]
        ELSE dev[j] ]
    \o SelectSeq(deps, LAMBDA e : e.name \notin NamesOf(dev))

\* { ...packageJson.dependencies, ...packageJson.devDependencies }
MergeDependencies(deps, dev) ==
    [ j \in 1..Len(deps) |->
        IF deps[j].name \in NamesOf(dev)
        THEN [name |-> deps[j].name, version |-> dev[IndexOf(dev, deps[j].name)].version]
        ELSE deps[j] ]
    \o SelectSeq(dev, LAMBDA e : e.name \notin NamesOf(deps))

\* variant: the range marker is kept
cleanVersion_NoStrip(currentVersion) == currentVersion

\* currentVersion.replace(/^[\^~]/, "")
cleanVersion(currentVersion) ==
    IF Len(currentVersion) > 0 /\ Head(currentVersion) \in {"^", "~"}
    THEN Tail(currentVersion)
    ELSE currentVersion

Call(kind, target) == [kind |-> kind, target |-> target]

\* ------------------------------------------------------------------- Init
Init ==
    /\ pc = "Init"
    /\ githubToken \in {"absent", "valid", "invalid"}
    /\ i = 1
    /\ packageJson = Null
    /\ securityAlerts = <<>>
    /\ dependencies = <<>>
    /\ lookups = <<>>
    /\ outdated = <<>>
    /\ results = <<>>
    /\ analysis = Null
    /\ emails = <<>>
    /\ calls = <<>>
    /\ inFlight = {}
    /\ prompt = Null
    /\ answer = Null
    /\ fetched = <<>>
    /\ credsUsed = {}
    /\ failure = "none"
    /\ exitCode = -1

\* ---------------------------------------------------------------- clients
\* githubRequest: what the promise settles to
githubRequest(ans) ==
    IF ans.status = "200" THEN [settled |-> "resolved", value |-> ans.body]
    ELSE IF ans.status = "404" THEN [settled |-> "resolved_null", value |-> Null]
    ELSE [settled |-> "rejected", value |-> Null]

\* getPackageJson: the manifest, or Null on any failure (a rejection, a null
\* content, a content that does not decode to JSON)
getPackageJson(ans) ==
    LET content == githubRequest(ans)
    IN  IF content.settled # "resolved" THEN Null
        ELSE IF content.value = Garbage THEN Null
        ELSE content.value

\* getSecurityAlerts: the mapped advisories, or <<>> on any failure
getSecurityAlerts(ans) ==
    LET alerts == githubRequest(ans)
    IN  IF alerts.settled # "resolved" THEN <<>>
        ELSE [ j \in 1..Len(alerts.value) |->
                 [package |-> alerts.value[j].security_vulnerability.package.name,
                  severity |-> alerts.value[j].security_advisory.severity] ]

\* getNpmPackageInfo: the promise resolves to info or Null; a 200 body that
\* is not JSON or has no dist-tags throws inside the response callback
getNpmPackageInfo(reply) ==
    IF reply.status = "200"
    THEN IF reply.body = Garbage
         THEN [threw |-> TRUE, value |-> Null]
         ELSE [threw |-> FALSE, value |-> [latest |-> reply.body.distTags.latest]]
    ELSE [threw |-> FALSE, value |-> Null]

\* r.outdated.slice(0, 10): the number of outdated packages a repository
\* is listed with
PreviewCount == 10

\* Array.prototype.slice(from, to) with 0 <= from
slice(s, from, to) == SubSeq(s, from + 1, IF to < Len(s) THEN to ELSE Len(s))

\* String.prototype.toUpperCase on a severity
toUpperCase(sv) ==
    CASE sv = "critical" -> "CRITICAL"
      [] sv = "high" -> "HIGH"
      [] sv = "medium" -> "MEDIUM"

\* the entry of one repository under SECURITY VULNERABILITIES
AlertsEntry(r) ==
    IF Len(r.securityAlerts) = 0
    THEN [repo |-> r.repo, text |-> "No open security alerts", alerts |-> <<>>]
    ELSE [repo |-> r.repo, text |-> "",
          alerts |-> [ j \in 1..Len(r.securityAlerts) |->
                         [package |-> r.securityAlerts[j].package,
                          severity |-> toUpperCase(r.securityAlerts[j].severity)] ]]

\* variant: the marker is written from ten outdated packages on
MoreMarker_FromTen(n) ==
    IF n >= PreviewCount THEN [more |-> n - PreviewCount] ELSE Null

\* "... and N more", written when the repository has more outdated packages
\* than are listed
MoreMarker(n) ==
    IF n > PreviewCount THEN [more |-> n - PreviewCount] ELSE Null

\* the entry of one repository under OUTDATED PACKAGES
OutdatedEntry(r) ==
    [repo |-> r.repo,
     count |-> Len(r.outdated),
     listed |-> slice(r.outdated, 0, PreviewCount),
     marker |-> MoreMarker(Len(r.outdated))]

\* analyzeWithClaude: the prompt, its two sections in the order of the text
BuildPrompt(rs) ==
    << [section |-> "SECURITY VULNERABILITIES",
        entries |-> [ j \in 1..Len(rs) |-> AlertsEntry(rs[j]) ]],
       [section |-> "OUTDATED PACKAGES",
        entries |-> [ j \in 1..Len(rs) |-> OutdatedEntry(rs[j]) ]] >>

\* variant: a failed call resolves to a placeholder text
analyzeWithClaude_Fallback(status) ==
    [settled |-> "resolved", value |-> [text |-> "analysis unavailable"]]

\* analyzeWithClaude: what the promise settles to
analyzeWithClaude(status) ==
    IF status = "200" THEN [settled |-> "resolved", value |-> [text |-> "analysis"]]
    ELSE [settled |-> "rejected", value |-> Null]

\* variant: the presence check is missing
HasToken_Always(token) == TRUE

\* main: if (!githubToken) is not taken
HasToken(token) == token # "absent"

\* checkOutdatedPackages, loop body: the record pushed for one dependency
IsOutdated(info, currentVersion) ==
    info # Null /\ info.latest # cleanVersion(currentVersion)

OutdatedRecord(entry, info) ==
    [package |-> entry.name, current |-> entry.version, latest |-> info.latest]

\* results.reduce((sum, r) => sum + r.securityAlerts.length, 0)
RECURSIVE totalVulnerabilities(_)
totalVulnerabilities(rs) ==
    IF rs = <<>> THEN 0 ELSE Len(Head(rs).securityAlerts) + totalVulnerabilities(Tail(rs))

\* results.reduce((sum, r) => sum + r.outdated.length, 0)
RECURSIVE totalOutdated(_)
totalOutdated(rs) ==
    IF rs = <<>> THEN 0 ELSE Len(Head(rs).outdated) + totalOutdated(Tail(rs))

\* variant: only severity critical counts
IsCriticalOrHigh_CriticalOnly(a) == a.severity = "critical"

\* a => a.severity === 'critical' || a.severity === 'high'
IsCriticalOrHigh(a) == a.severity = "critical" \/ a.severity = "high"

\* results.flatMap(r => r.securityAlerts.filter(critical or high))
RECURSIVE criticalSecurityIssues(_)
criticalSecurityIssues(rs) ==
    IF rs = <<>> THEN <<>>
    ELSE SelectSeq(Head(rs).securityAlerts, IsCriticalOrHigh)
         \o criticalSecurityIssues(Tail(rs))

\* sendEmail: the subject line
Subject(rs) ==
    IF Len(criticalSecurityIssues(rs)) > 0
    THEN [kind |-> "SECURITY ALERT", n |-> Len(criticalSecurityIssues(rs))]
    ELSE IF totalVulnerabilities(rs) > 0
    THEN [kind |-> "Security Update", n |-> totalVulnerabilities(rs)]
    ELSE IF totalOutdated(rs) > 0
    THEN [kind |-> "Package Updates Available", n |-> totalOutdated(rs)]
    ELSE [kind |-> "Monthly Dependency Report", n |-> 0]

\* subject of the short notice
AllSecureSubject == [kind |-> "All Secure & Up To Date", n |-> 0]

\* variant: the test of the revision without advisories (totalOutdated only)
IsAllClean_OutdatedOnly(rs) == totalOutdated(rs) = 0

\* main: the all-clean test
IsAllClean(rs) == totalVulnerabilities(rs) = 0 /\ totalOutdated(rs) = 0

\* main, lines 653-656 and 659-664: the report appended for a repository
Report(repo, recs, total, alerts) ==
    [repo |-> repo, outdated |-> recs, totalDependencies |-> total,
     securityAlerts |-> alerts]

\* variant: the advisories are left out of the report of a repository
\* without manifest
NoManifestReport_NoAlerts(repo, alerts) == Report(repo, <<>>, 0, <<>>)

\* main, lines 659-664: the report of a repository whose manifest is null
NoManifestReport(repo, alerts) == Report(repo, <<>>, 0, alerts)

\* for (const repo of config.repos): where main goes after repository idx - 1
LoopPc(idx) == IF idx > Len(repos) THEN "Decide" ELSE "Loop"

\* variant: the first failure of the AI call is caught and the statement
\* runs again
Fail_RetryAi(cause) ==
    IF cause = "ai" /\ \A k \in 1..Len(calls) : calls[k].kind # "ai"
    THEN UNCHANGED <<pc, failure, exitCode>>
    ELSE /\ pc' = "Failed"
         /\ failure' = cause
         /\ exitCode' = 1

\* main().catch: an error that reaches the top level ends the process with
\* status 1; so does the missing token, and a throw in a response callback
\* ends it with a non-zero status
Fail(cause) ==
    /\ pc' = "Failed"
    /\ failure' = cause
    /\ exitCode' = 1

\* variant: the manifest and the advisories of a repository are requested
\* together
CallsIssued_ParallelFetch ==
    CASE pc = "Loop" -> {Call("manifest", repos[i]), Call("alerts", repos[i])}
      [] pc = "Alerts" -> {}
      [] pc = "Compare" /\ Len(lookups) < Len(dependencies) ->
            {Call("registry", dependencies[Len(lookups) + 1].name)}
      [] pc = "AllClean" -> {Call("email", AllSecureSubject.kind)}
      [] pc = "NeedsAnalysis" -> {Call("ai", "messages")}
      [] pc = "Notify" -> {Call("email", Subject(results).kind)}
      [] OTHER -> {}

\* the outbound call main is suspended on at pc: each await is on a single
\* request, sent by the step that reaches the statement
CallsIssued ==
    CASE pc = "Loop" -> {Call("manifest", repos[i])}
      [] pc = "Alerts" -> {Call("alerts", repos[i])}
      [] pc = "Compare" /\ Len(lookups) < Len(dependencies) ->
            {Call("registry", dependencies[Len(lookups) + 1].name)}
      [] pc = "AllClean" -> {Call("email", AllSecureSubject.kind)}
      [] pc = "NeedsAnalysis" -> {Call("ai", "messages")}
      [] pc = "Notify" -> {Call("email", Subject(results).kind)}
      [] OTHER -> {}

\* analyzeWithClaude builds the prompt before it sends the request; the
\* prompt is a local of the call
PromptAt(p, rs) == IF p = "NeedsAnalysis" THEN BuildPrompt(rs) ELSE Null

\* ---------------------------------------------------------------- actions
\* main up to the loop: read the environment, abort without GH_TOKEN
Start ==
    /\ pc = "Init"
    /\ IF HasToken(githubToken)
       THEN /\ pc' = LoopPc(1)
            /\ UNCHANGED <<failure, exitCode>>
       ELSE Fail("no_token")
    /\ UNCHANGED <<githubToken, i, packageJson, securityAlerts, dependencies, lookups,
                   outdated, results, analysis, emails, calls, answer, fetched,
                   credsUsed>>
    /\ inFlight' = CallsIssued'
    /\ prompt' = PromptAt(pc', results')

\* await getPackageJson(repo, githubToken)
FetchManifest ==
    /\ pc = "Loop"
    /\ Call("manifest", repos[i]) \in inFlight
    /\ \E ans \in GithubAnswers(githubToken, Manifests \cup {Garbage}) :
         /\ answer' = ans
         /\ packageJson' = getPackageJson(ans)
    /\ calls' = Append(calls, Call("manifest", repos[i]))
    /\ credsUsed' = credsUsed \cup {"GH_TOKEN"}
    /\ pc' = "Alerts"
    /\ UNCHANGED <<githubToken, i, securityAlerts, dependencies, lookups, outdated,
                   results, analysis, emails, fetched, failure, exitCode>>
    /\ inFlight' = CallsIssued'
    /\ prompt' = PromptAt(pc', results')

\* await getSecurityAlerts(repo, githubToken), then either the call of
\* checkOutdatedPackages up to its first await or the else branch of main
FetchAlerts ==
    /\ pc = "Alerts"
    /\ Call("alerts", repos[i]) \in inFlight
    /\ \E ans \in GithubAnswers(githubToken, AlertLists) :
         LET alerts == getSecurityAlerts(ans)
         IN  /\ fetched' = Append(fetched, [manifestOk |-> packageJson # Null,
                                            advisories |-> alerts])
             /\ IF packageJson # Null
                THEN /\ securityAlerts' = alerts
                     /\ answer' = ans
                     /\ dependencies' = MergeDependencies(packageJson.dependencies,
                                                          packageJson.devDependencies)
                     /\ pc' = "Compare"
                     /\ UNCHANGED <<results, i, packageJson>>
                ELSE /\ results' = Append(results, NoManifestReport(repos[i], alerts))
                     /\ i' = i + 1
                     /\ pc' = LoopPc(i + 1)
                     /\ answer' = Null
                     /\ UNCHANGED <<securityAlerts, dependencies, packageJson>>
    /\ calls' = Append(calls, Call("alerts", repos[i]))
    /\ credsUsed' = credsUsed \cup {"GH_TOKEN"}
    /\ UNCHANGED <<githubToken, lookups, outdated, analysis, emails, failure, exitCode>>
    /\ inFlight' = CallsIssued'
    /\ prompt' = PromptAt(pc', results')

\* checkOutdatedPackages: one iteration of the loop over the merged mapping
RegistryLookup ==
    /\ pc = "Compare"
    /\ Len(lookups) < Len(dependencies)
    /\ Call("registry", dependencies[Len(lookups) + 1].name) \in inFlight
    /\ LET entry == dependencies[Len(lookups) + 1]
       IN  /\ calls' = Append(calls, Call("registry", entry.name))
           /\ \E reply \in RegistryAnswers :
                LET r == getNpmPackageInfo(reply)
                IN  IF r.threw
                    THEN /\ Fail("registry")
                         /\ UNCHANGED <<lookups, outdated>>
                    ELSE /\ lookups' = Append(lookups, r.value)
                         /\ outdated' = IF IsOutdated(r.value, entry.version)
                                        THEN Append(outdated, OutdatedRecord(entry, r.value))
                                        ELSE outdated
                         /\ UNCHANGED <<pc, failure, exitCode>>
    /\ UNCHANGED <<githubToken, i, packageJson, securityAlerts, dependencies, results,
                   analysis, emails, answer, fetched, credsUsed>>
    /\ inFlight' = CallsIssued'
    /\ prompt' = PromptAt(pc', results')

\* checkOutdatedPackages returns; main appends the report and the iteration's
\* block-scoped values (packageJson, securityAlerts, the comparator's locals) end
CompareReturn ==
    /\ pc = "Compare"
    /\ Len(lookups) = Len(dependencies)
    /\ results' = Append(results, Report(repos[i], outdated, Len(dependencies),
                                         securityAlerts))
    /\ i' = i + 1
    /\ pc' = LoopPc(i + 1)
    /\ packageJson' = Null
    /\ securityAlerts' = <<>>
    /\ dependencies' = <<>>
    /\ lookups' = <<>>
    /\ outdated' = <<>>
    /\ answer' = Null
    /\ UNCHANGED <<githubToken, analysis, emails, calls, fetched, credsUsed, failure,
                   exitCode>>
    /\ inFlight' = CallsIssued'
    /\ prompt' = PromptAt(pc', results')

\* variant: no short-circuit, the analysis is always requested
Decide_AlwaysAnalyze ==
    /\ pc = "Decide"
    /\ pc' = "NeedsAnalysis"
    /\ UNCHANGED <<githubToken, i, packageJson, securityAlerts, dependencies, lookups,
                   outdated, results, analysis, emails, calls, answer, fetched,
                   credsUsed, failure, exitCode>>
    /\ inFlight' = CallsIssued'
    /\ prompt' = PromptAt(pc', results')

\* main after the loop: the totals and the branch
Decide ==
    /\ pc = "Decide"
    /\ pc' = IF IsAllClean(results) THEN "AllClean" ELSE "NeedsAnalysis"
    /\ UNCHANGED <<githubToken, i, packageJson, securityAlerts, dependencies, lookups,
                   outdated, results, analysis, emails, calls, answer, fetched,
                   credsUsed, failure, exitCode>>
    /\ inFlight' = CallsIssued'
    /\ prompt' = PromptAt(pc', results')

\* variant: the return after the short notice is missing
SendShortNotice_NoReturn ==
    /\ pc = "AllClean"
    /\ Call("email", "All Secure & Up To Date") \in inFlight
    /\ calls' = Append(calls, Call("email", "All Secure & Up To Date"))
    /\ credsUsed' = credsUsed \cup {"GMAIL_USER", "GMAIL_APP_PASSWORD", "RECIPIENT_EMAIL"}
    /\ \E accepted \in BOOLEAN :
         IF accepted
         THEN /\ emails' = Append(emails, [kind |-> "All Secure & Up To Date", n |-> 0])
              /\ pc' = "NeedsAnalysis"
              /\ UNCHANGED <<failure, exitCode>>
         ELSE /\ pc' = "Failed"
              /\ failure' = "email"
              /\ exitCode' = 1
              /\ UNCHANGED emails
    /\ UNCHANGED <<githubToken, i, packageJson, securityAlerts, dependencies, lookups,
                   outdated, results, analysis, answer, fetched>>
    /\ inFlight' = CallsIssued'
    /\ prompt' = PromptAt(pc', results')

\* the all-clean branch: await transporter.sendMail(short notice); return
SendShortNotice ==
    /\ pc = "AllClean"
    /\ Call("email", AllSecureSubject.kind) \in inFlight
    /\ calls' = Append(calls, Call("email", AllSecureSubject.kind))
    /\ credsUsed' = credsUsed \cup {"GMAIL_USER", "GMAIL_APP_PASSWORD", "RECIPIENT_EMAIL"}
    /\ \E accepted \in BOOLEAN :
         IF accepted
         THEN /\ emails' = Append(emails, AllSecureSubject)
              /\ pc' = "Done"
              /\ exitCode' = 0
              /\ UNCHANGED failure
         ELSE /\ Fail("email")
              /\ UNCHANGED emails
    /\ UNCHANGED <<githubToken, i, packageJson, securityAlerts, dependencies, lookups,
                   outdated, results, analysis, answer, fetched>>
    /\ inFlight' = CallsIssued'
    /\ prompt' = PromptAt(pc', results')

\* await analyzeWithClaude(results, anthropicKey)
AnalyzeWithClaude ==
    /\ pc = "NeedsAnalysis"
    /\ Call("ai", "messages") \in inFlight
    /\ credsUsed' = credsUsed \cup {"ANTHROPIC_API_KEY"}
    /\ \E status \in {"200", "500", "neterr"} :
         LET r == analyzeWithClaude(status)
         IN  /\ calls' = Append(calls, Call("ai", status))
             /\ IF r.settled = "resolved"
                THEN /\ analysis' = r.value
                     /\ pc' = "Notify"
                     /\ UNCHANGED <<failure, exitCode>>
                ELSE /\ Fail("ai")
                     /\ UNCHANGED analysis
    /\ UNCHANGED <<githubToken, i, packageJson, securityAlerts, dependencies, lookups,
                   outdated, results, emails, answer, fetched>>
    /\ inFlight' = CallsIssued'
    /\ prompt' = PromptAt(pc', results')

\* await sendEmail(analysis, results, ...); main returns
SendEmail ==
    /\ pc = "Notify"
    /\ Call("email", Subject(results).kind) \in inFlight
    /\ calls' = Append(calls, Call("email", Subject(results).kind))
    /\ credsUsed' = credsUsed \cup {"GMAIL_USER", "GMAIL_APP_PASSWORD", "RECIPIENT_EMAIL"}
    /\ \E accepted \in BOOLEAN :
         IF accepted
         THEN /\ emails' = Append(emails, Subject(results))
              /\ pc' = "Done"
              /\ exitCode' = 0
              /\ UNCHANGED failure
         ELSE /\ Fail("email")
              /\ UNCHANGED emails
    /\ UNCHANGED <<githubToken, i, packageJson, securityAlerts, dependencies, lookups,
                   outdated, results, analysis, answer, fetched>>
    /\ inFlight' = CallsIssued'
    /\ prompt' = PromptAt(pc', results')

Next ==
    \/ Start
    \/ FetchManifest
    \/ FetchAlerts
    \/ RegistryLookup
    \/ CompareReturn
    \/ Decide
    \/ SendShortNotice
    \/ AnalyzeWithClaude
    \/ SendEmail

Spec == Init /\ [][Next]_vars

\* --------------------------------------------- the comparator on its own
\* main at the call of checkOutdatedPackages for the first repository
InitCmp ==
    /\ pc = "Compare"
    /\ githubToken = "valid"
    /\ i = 1
    /\ packageJson \in CmpManifests
    /\ securityAlerts = <<>>
    /\ dependencies = MergeDependencies(packageJson.dependencies,
                                        packageJson.devDependencies)
    /\ lookups = <<>>
    /\ outdated = <<>>
    /\ results = <<>>
    /\ analysis = Null
    /\ emails = <<>>
    /\ calls = <<Call("manifest", repos[1]), Call("alerts", repos[1])>>
    /\ inFlight = CallsIssued
    /\ prompt = Null
    /\ answer = [status |-> "200", body |-> <<>>]
    /\ fetched = <<[manifestOk |-> TRUE, advisories |-> <<>>]>>
    /\ credsUsed = {"GH_TOKEN"}
    /\ failure = "none"
    /\ exitCode = -1

NextCmp ==
    \/ RegistryLookup
    \/ CompareReturn

SpecCmp == InitCmp /\ [][NextCmp]_vars

\* --------------------------------------------------- the prompt on its own
\* the merged mapping of a repository with n dependencies
PromptDependencies(n) ==
    [ k \in 1..n |-> [name |-> "pkg" \o ToString(k), version |-> <<"^", "1">>] ]

\* the advisories a repository of these runs answers with
PromptAlertLists == {<<>>, <<RawAlert("a", "high")>>}

\* the report main appends for a repository whose n dependencies are all
\* outdated
PromptReport(repo, n, rawAlerts) ==
    Report(repo,
           [ k \in 1..n |-> OutdatedRecord(PromptDependencies(n)[k], [latest |-> <<"2">>]) ],
           n,
           getSecurityAlerts([status |-> "200", body |-> rawAlerts]))

\* what the loop leaves for each choice of dependency count and advisories
RECURSIVE PromptRuns(_)
PromptRuns(n) ==
    IF n = 0
    THEN {[results |-> <<>>, fetched |-> <<>>, calls |-> <<>>]}
    ELSE { [results |-> Append(run.results, PromptReport(repos[n], cnt, raw)),
            fetched |-> Append(run.fetched, [manifestOk |-> TRUE, advisories |-> raw]),
            calls |-> run.calls
                      \o <<Call("manifest", repos[n]), Call("alerts", repos[n])>>
                      \o [ k \in 1..cnt |->
                             Call("registry", PromptDependencies(cnt)[k].name) ]] :
           run \in PromptRuns(n - 1), cnt \in 0..MaxOutdated, raw \in PromptAlertLists }

\* main after the loop, with something to report
InitPrompt ==
    /\ pc = "Decide"
    /\ githubToken = "valid"
    /\ i = Len(repos) + 1
    /\ packageJson = Null
    /\ securityAlerts = <<>>
    /\ dependencies = <<>>
    /\ lookups = <<>>
    /\ outdated = <<>>
    /\ \E run \in PromptRuns(Len(repos)) :
         /\ ~IsAllClean(run.results)
         /\ results = run.results
         /\ fetched = run.fetched
         /\ calls = run.calls
    /\ analysis = Null
    /\ emails = <<>>
    /\ inFlight = {}
    /\ prompt = Null
    /\ answer = Null
    /\ credsUsed = {"GH_TOKEN"}
    /\ failure = "none"
    /\ exitCode = -1

NextPrompt ==
    \/ Decide
    \/ AnalyzeWithClaude
    \/ SendEmail

SpecPrompt == InitPrompt /\ [][NextPrompt]_vars

\* ================================================================ claims
EmailCalls == SelectSeq(calls, LAMBDA c : c.kind = "email")
FullEmailCalls == SelectSeq(EmailCalls, LAMBDA c : c.target # "All Secure & Up To Date")
ShortEmailCalls == SelectSeq(EmailCalls, LAMBDA c : c.target = "All Secure & Up To Date")
AiCalls == SelectSeq(calls, LAMBDA c : c.kind = "ai")
GithubCalls == SelectSeq(calls, LAMBDA c : c.kind \in {"manifest", "alerts"})

\* the loop over config.repos has run to its end
LoopFinished == i > Len(repos)

\* no report holds an outdated record or an advisory
NoFindings ==
    \A j \in 1..Len(results) :
        results[j].outdated = <<>> /\ results[j].securityAlerts = <<>>

\* the run is in, or went through, the all-clean branch
TookAllClean == pc = "AllClean" \/ ShortEmailCalls # <<>>

\* position of the first call of a kind in the call log
FirstCall(kind) == CHOOSE j \in 1..Len(calls) :
                      calls[j].kind = kind /\ \A k \in 1..(j - 1) : calls[k].kind # kind

\* C1 as stated: after the loop the all-clean branch is taken exactly when
\* there are no findings; that branch dispatches exactly one short email,
\* never calls the summarizer and ends successfully; every other run calls
\* the summarizer and then the notifier.
C1_Original ==
    (LoopFinished /\ pc \in {"Done", "Failed"}) =>
        IF NoFindings
        THEN /\ emails = <<AllSecureSubject>>
             /\ AiCalls = <<>>
             /\ pc = "Done" /\ exitCode = 0
        ELSE /\ Len(AiCalls) = 1
             /\ Len(FullEmailCalls) = 1
             /\ ShortEmailCalls = <<>>

\* C1 (amended): after the loop the all-clean branch is taken exactly when
\* no report holds an outdated record or an advisory.  In that branch the
\* summarizer is never called, the only send attempted is the short notice,
\* once, and the run ends successfully when the relay accepts it (a rejected
\* send ends it in Failed).  In every other case the summarizer is invoked,
\* and the notifier is invoked after it only once it has returned an analysis.
C1_Decision ==
    (LoopFinished /\ pc # "Decide") =>
        /\ NoFindings <=> TookAllClean
        /\ TookAllClean =>
              /\ pc \in {"AllClean", "Done", "Failed"}
              /\ AiCalls = <<>>
              /\ FullEmailCalls = <<>>
              /\ Len(ShortEmailCalls) = (IF pc = "AllClean" THEN 0 ELSE 1)
              /\ pc = "Done" => emails = <<AllSecureSubject>> /\ exitCode = 0
              /\ pc = "Failed" => failure = "email" /\ emails = <<>> /\ exitCode = 1
        /\ ~TookAllClean =>
              /\ pc \in {"NeedsAnalysis", "Notify", "Done", "Failed"}
              /\ Len(AiCalls) = (IF pc = "NeedsAnalysis" THEN 0 ELSE 1)
              /\ pc = "Notify" => analysis # Null
              /\ FullEmailCalls # <<>> =>
                    /\ analysis # Null
                    /\ FirstCall("ai") < FirstCall("email")
              /\ pc = "Done" =>
                    /\ Len(FullEmailCalls) = 1
                    /\ Len(emails) = 1 /\ emails[1] # AllSecureSubject
                    /\ exitCode = 0
              /\ pc = "Failed" => failure \in {"ai", "email"} /\ emails = <<>>

\* a run over repositories without findings that ended with the short notice
C1_Witness ==
    /\ githubToken = "valid" /\ LoopFinished /\ NoFindings
    /\ pc = "Done" /\ emails = <<AllSecureSubject>> /\ AiCalls = <<>>
    /\ \E j \in 1..Len(results) : results[j].totalDependencies > 0

\* C2 as stated: when the host rejects the credential the run is fatal; it
\* neither ends successfully nor sends an email.
C2_RejectedCredentialIsFatal ==
    githubToken = "invalid" => (pc # "Done" /\ emails = <<>> /\ exitCode # 0)

\* a repository host answer that counts as a failed manifest fetch
ManifestFailed(ans) == ans.status # "200" \/ ans.body = Garbage

C4_AiFailureFatal ==
    /\ \A j \in 1..Len(AiCalls) :
          AiCalls[j].target # "200" =>
              /\ pc = "Failed" /\ failure = "ai" /\ exitCode = 1
              /\ EmailCalls = <<>> /\ emails = <<>>
    /\ FullEmailCalls # <<>> =>
          /\ AiCalls # <<>> /\ AiCalls[1].target = "200"
          /\ analysis # Null
          /\ FirstCall("ai") < FirstCall("email")

\* the summarizer answered with an error
C4_Witness ==
    /\ AiCalls # <<>> /\ AiCalls[1].target = "500"
    /\ pc = "Failed" /\ failure = "ai"

\* C5: without GH_TOKEN main exits with status 1 before any outbound call.
C5_MissingTokenAborts ==
    githubToken = "absent" =>
        /\ calls = <<>> /\ inFlight = {} /\ credsUsed = {} /\ emails = <<>>
        /\ results = <<>>
        /\ pc \in {"Init", "Failed"}
        /\ pc = "Failed" => exitCode = 1 /\ failure = "no_token"

\* the run aborted at the presence check
C5_Witness == githubToken = "absent" /\ pc = "Failed" /\ exitCode = 1

\* some report holds an advisory / an outdated record
SomeAdvisory(rs) == \E j \in 1..Len(rs) : rs[j].securityAlerts # <<>>
SomeOutdated(rs) == \E j \in 1..Len(rs) : rs[j].outdated # <<>>

\* the subject kind by the precedence of C6, "most severe" meaning the
\* severities of the set top
KindByPrecedence(rs, top) ==
    IF \E j \in 1..Len(rs) : \E k \in 1..Len(rs[j].securityAlerts) :
           rs[j].securityAlerts[k].severity \in top
    THEN "SECURITY ALERT"
    ELSE IF SomeAdvisory(rs) THEN "Security Update"
    ELSE IF SomeOutdated(rs) THEN "Package Updates Available"
    ELSE "Monthly Dependency Report"

\* C6 as stated: the security-alert subject is chosen when some advisory has
\* severity critical, otherwise the any-vulnerabilities subject when an
\* advisory exists, otherwise the outdated-only subject, otherwise the default.
C6_Original ==
    /\ Subject(results).kind = KindByPrecedence(results, {"critical"})
    /\ \A j \in 1..Len(FullEmailCalls) :
          FullEmailCalls[j].target = KindByPrecedence(results, {"critical"})

\* C6 (amended): the security-alert subject is chosen when some advisory has
\* severity critical or high (also when no package is outdated), otherwise
\* the any-vulnerabilities subject when an advisory exists, otherwise the
\* outdated-only subject when a package is outdated, otherwise the default.
C6_SubjectPrecedence ==
    /\ Subject(results).kind = KindByPrecedence(results, {"critical", "high"})
    /\ \A j \in 1..Len(FullEmailCalls) :
          FullEmailCalls[j].target = KindByPrecedence(results, {"critical", "high"})
    /\ (pc = "Done" /\ ~TookAllClean) =>
          emails = << Subject(results) >>
          /\ emails[1].kind = KindByPrecedence(results, {"critical", "high"})

\* a report sent under the security-alert subject for a single advisory of
\* severity high, with no package outdated
C6_Witness ==
    /\ pc = "Done" /\ Len(emails) = 1
    /\ emails[1].kind = "SECURITY ALERT"
    /\ ~SomeOutdated(results)
    /\ \A j \in 1..Len(results) : \A k \in 1..Len(results[j].securityAlerts) :
          results[j].securityAlerts[k].severity = "high"

\* C7 as stated: no registry lookup ever ends the run: whatever the registry
\* answers, the run is not moved to Failed by a lookup.
C7_RegistryLookupNeverFatal ==
    /\ failure # "registry"
    /\ pc = "Failed" => failure \in {"no_token", "ai", "email"}

\* C8: at most one email send is attempted in a run and at most one email is
\* dispatched; a run that ended successfully dispatched exactly one, the
\* short notice or the full report; a rejected send ends the run in Failed
\* with exit status 1 and is not repeated.
C8_OneEmailPerRun ==
    /\ Len(EmailCalls) <= 1
    /\ Len(emails) <= Len(EmailCalls)
    /\ pc = "Done" =>
          /\ Len(emails) = 1 /\ Len(EmailCalls) = 1 /\ exitCode = 0
          /\ emails[1].kind = EmailCalls[1].target
    /\ failure = "email" =>
          /\ pc = "Failed" /\ exitCode = 1
          /\ emails = <<>> /\ Len(EmailCalls) = 1
    /\ (Len(EmailCalls) = 1 /\ emails = <<>>) => (pc = "Failed" /\ failure = "email")
    /\ exitCode = 0 => pc = "Done"

\* the relay rejected the only send of the run
C8_Witness ==
    /\ failure = "email" /\ pc = "Failed" /\ exitCode = 1
    /\ Len(EmailCalls) = 1 /\ emails = <<>>

\* C9 as stated: a run through the all-clean branch completes without using
\* the AI key or the email-sender credentials.
C9_Original ==
    (TookAllClean /\ pc = "Done") =>
        credsUsed \cap {"ANTHROPIC_API_KEY", "GMAIL_USER", "GMAIL_APP_PASSWORD"} = {}

\* C9 (amended): only the AI key is confined to the needs-analysis path.  A
\* run through the all-clean branch never uses the AI key, and it does use
\* the email-sender credentials, for the short notice.
C9_AiKeyOnlyOnAnalysisPath ==
    /\ TookAllClean => "ANTHROPIC_API_KEY" \notin credsUsed
    /\ (LoopFinished /\ NoFindings) => "ANTHROPIC_API_KEY" \notin credsUsed
    /\ "ANTHROPIC_API_KEY" \in credsUsed => (LoopFinished /\ ~NoFindings)
    /\ (TookAllClean /\ pc \in {"Done", "Failed"}) =>
          {"GMAIL_USER", "GMAIL_APP_PASSWORD"} \subseteq credsUsed
    /\ ~LoopFinished => credsUsed \subseteq {"GH_TOKEN"}

\* an all-clean run that ended successfully
C9_Witness ==
    /\ TookAllClean /\ pc = "Done" /\ exitCode = 0
    /\ credsUsed = {"GH_TOKEN", "GMAIL_USER", "GMAIL_APP_PASSWORD", "RECIPIENT_EMAIL"}

\* the declared version without its one leading caret or tilde
NormalizedDeclared(v) ==
    IF v # <<>> /\ v[1] \in {"^", "~"} THEN SubSeq(v, 2, Len(v)) ELSE v

\* the records due for the dependencies looked up so far, in mapping order
RECURSIVE RecordsDue(_, _, _)
RecordsDue(deps, infos, n) ==
    IF n = 0 THEN <<>>
    ELSE LET before == RecordsDue(deps, infos, n - 1)
         IN  IF infos[n] # Null /\ infos[n].latest # NormalizedDeclared(deps[n].version)
             THEN Append(before, [package |-> deps[n].name,
                                  current |-> deps[n].version,
                                  latest |-> infos[n].latest])
             ELSE before

\* C10: checkOutdatedPackages holds a record for a dependency exactly when
\* the registry gave data for it and the latest version differs textually
\* from the declared version without its leading caret or tilde; the records
\* are in the iteration order of the merged mapping, and the report appended
\* for the repository carries exactly these records.
C10_ComparatorRecords ==
    /\ [](pc = "Compare" =>
            outdated = RecordsDue(dependencies, lookups, Len(lookups)))
    /\ [][(pc = "Compare" /\ pc' \in {"Loop", "Decide"}) =>
            /\ Len(lookups) = Len(dependencies)
            /\ results'[Len(results')].outdated =
                  RecordsDue(dependencies, lookups, Len(dependencies))]_vars

\* two dependencies compared: ^1 against latest 1 gives no record, ~1 against
\* latest 2 gives the only record
C10_Witness ==
    /\ pc = "Compare" /\ Len(dependencies) = 2 /\ Len(lookups) = 2
    /\ dependencies[1].version = <<"^", "1">> /\ lookups[1] = [latest |-> <<"1">>]
    /\ dependencies[2].version = <<"~", "1">> /\ lookups[2] = [latest |-> <<"2">>]
    /\ Len(outdated) = 1 /\ outdated[1].package = dependencies[2].name

\* the names of both groups of a manifest
ManifestNames(pj) ==
    { pj.dependencies[j].name : j \in 1..Len(pj.dependencies) }
    \cup { pj.devDependencies[j].name : j \in 1..Len(pj.devDependencies) }

\* the version last-write-wins gives a name: the development entry's if any
VersionByLastWrite(pj, nm) ==
    IF \E k \in 1..Len(pj.devDependencies) : pj.devDependencies[k].name = nm
    THEN pj.devDependencies[CHOOSE k \in 1..Len(pj.devDependencies) :
                               pj.devDependencies[k].name = nm].version
    ELSE pj.dependencies[CHOOSE k \in 1..Len(pj.dependencies) :
                            pj.dependencies[k].name = nm].version

\* C11: the mapping the comparator iterates holds exactly the names of the
\* regular and development groups, each once, a name of both groups with the
\* development version; the report's totalDependencies is the number of
\* distinct names and no two records of a report share a name.
C11_MergedMapping ==
    /\ [](pc = "Compare" =>
            /\ { dependencies[j].name : j \in 1..Len(dependencies) }
                  = ManifestNames(packageJson)
            /\ \A j, k \in 1..Len(dependencies) :
                  j # k => dependencies[j].name # dependencies[k].name
            /\ \A j \in 1..Len(dependencies) :
                  dependencies[j].version
                    = VersionByLastWrite(packageJson, dependencies[j].name)
            /\ \A j, k \in 1..Len(outdated) :
                  j # k => outdated[j].package # outdated[k].package)
    /\ [](\A r \in 1..Len(results) : \A j, k \in 1..Len(results[r].outdated) :
            j # k => results[r].outdated[j].package # results[r].outdated[k].package)
    /\ [][(pc = "Compare" /\ pc' \in {"Loop", "Decide"}) =>
            results'[Len(results')].totalDependencies
              = Cardinality(ManifestNames(packageJson))]_vars

\* a name declared in both groups with different versions: the merged
\* mapping holds it once, with the development version, next to a second name
C11_Witness ==
    /\ pc = "Compare" /\ Len(lookups) = Len(dependencies)
    /\ Len(packageJson.dependencies) = 1 /\ Len(packageJson.devDependencies) = 1
    /\ packageJson.dependencies[1].name = packageJson.devDependencies[1].name
    /\ packageJson.dependencies[1].version = <<"1">>
    /\ packageJson.devDependencies[1].version = <<"^", "1">>
    /\ dependencies = << packageJson.devDependencies[1] >>

\* C12 as stated: the exit status is 0 exactly when the run reaches Done and
\* 1 only for a missing credential, a failed AI call or a failed email send;
\* manifest, advisory and registry fetches never make it non-zero.
C12_ExitStatus ==
    /\ exitCode = 0 <=> pc = "Done"
    /\ exitCode = 1 <=> pc = "Failed"
    /\ exitCode = 1 => failure \in {"no_token", "ai", "email"}
    /\ exitCode = 1 => (githubToken = "absent" \/ LoopFinished)

EachFetchOnce ==
    [ k \in 1..(2 * Len(repos)) |->
        IF k % 2 = 1 THEN Call("manifest", repos[(k + 1) \div 2])
                     ELSE Call("alerts", repos[k \div 2]) ]

\* results.reduce((sum, r) => sum + r.totalDependencies, 0)
RECURSIVE TotalDependencies(_)
TotalDependencies(rs) ==
    IF rs = <<>> THEN 0 ELSE Head(rs).totalDependencies + TotalDependencies(Tail(rs))

\* C14: no call is retried. A call in flight is not in the log of settled
\* calls: not the manifest fetch or the advisory fetch of its repository,
\* not the lookup of its name among the lookups of the repository at hand,
\* not an AI call, not a send. The fetches in the log are the manifest
\* fetch and the advisory fetch of each repository, once each and in
\* order, up to those of the repository at hand; the lookups in the log
\* are one for each name of the merged mappings gone through; the AI call
\* and the send are in the log at most once, and once on the path that
\* passed them. A run that is over has no call in flight: the call that
\* failed is not made again.
C14_NoRetry ==
    /\ \A c \in inFlight :
         CASE c.kind \in {"manifest", "alerts"} ->
                \A k \in 1..Len(calls) : calls[k] # c
           [] c.kind = "registry" ->
                \A k \in (Len(calls) - Len(lookups) + 1)..Len(calls) : calls[k] # c
           [] c.kind \in {"ai", "email"} ->
                \A k \in 1..Len(calls) : calls[k].kind # c.kind
    /\ \A fetches \in {GithubCalls} : \A ai \in {Len(AiCalls)} : \A sends \in {Len(EmailCalls)} :
         /\ Len(fetches) >= 2 * Len(results)
         /\ Len(fetches) <= 2 * Len(results) + 2
         /\ Len(fetches) <= 2 * Len(repos)
         /\ fetches = SubSeq(EachFetchOnce, 1, Len(fetches))
         /\ Len(calls) - Len(fetches) - ai - sends
               = TotalDependencies(results) + Len(lookups)
                   + (IF failure = "registry" THEN 1 ELSE 0)
         /\ ai <= 1
         /\ sends <= 1
         /\ pc = "Notify" => ai = 1
         /\ pc = "Done" => sends = 1
         /\ failure = "ai" => ai = 1 /\ sends = 0
         /\ failure = "email" => sends = 1
    /\ pc \in {"Done", "Failed"} => inFlight = {}

\* the manifest fetch of the first repository failed and so did the AI
\* call: each is in the log once, with the one lookup of the run, and the
\* run is over
C14_Witness ==
    /\ pc = "Failed" /\ failure = "ai"
    /\ Len(fetched) = Len(repos) /\ ~fetched[1].manifestOk
    /\ Len(GithubCalls) = 2 * Len(repos)
    /\ Len(AiCalls) = 1
    /\ Len(calls) = 2 * Len(repos) + 2

\* C15: the prompt has the advisories section and then the outdated
\* packages section, each with one entry per report in the order of the
\* reports. The entry of a repository lists the first 10 of its outdated
\* records, or all of them when there are fewer, in record order; it has
\* the marker exactly when the repository has more than 10 outdated
\* records, and the marker gives their number minus 10.
C15_PromptPreview ==
    prompt # Null =>
        /\ Len(prompt) = 2
        /\ prompt[1].section = "SECURITY VULNERABILITIES"
        /\ prompt[2].section = "OUTDATED PACKAGES"
        /\ \A s \in 1..2 :
             /\ Len(prompt[s].entries) = Len(results)
             /\ \A j \in 1..Len(results) : prompt[s].entries[j].repo = results[j].repo
        /\ \A j \in 1..Len(results) :
             LET e == prompt[1].entries[j]
                 a == results[j].securityAlerts
             IN  /\ Len(e.alerts) = Len(a)
                 /\ \A k \in 1..Len(a) : e.alerts[k].package = a[k].package
        /\ \A j \in 1..Len(results) :
             LET e == prompt[2].entries[j]
                 o == results[j].outdated
             IN  /\ e.count = Len(o)
                 /\ Len(e.listed) = (IF Len(o) < 10 THEN Len(o) ELSE 10)
                 /\ \A k \in 1..Len(e.listed) : e.listed[k] = o[k]
                 /\ (e.marker # Null) <=> (Len(o) > 10)
                 /\ (Len(o) > 10) => (e.marker.more = Len(o) - 10)

\* the prompt is built for a first repository with 12 outdated packages,
\* listed with 10 and the marker for 2 more, and a second one with exactly
\* 10, listed with all of them and no marker
C15_Witness ==
    /\ prompt # Null
    /\ Len(results[1].outdated) = 12
    /\ Len(prompt[2].entries[1].listed) = 10
    /\ prompt[2].entries[1].marker = [more |-> 2]
    /\ Len(results[2].outdated) = 10
    /\ Len(prompt[2].entries[2].listed) = 10
    /\ prompt[2].entries[2].marker = Null
    /\ results[2].securityAlerts # <<>>

====
